---- MODULE Spec2Model ----
(***************************************************************************)
(* Model of the bulk staging / queue / drain pipeline of                   *)
(* backend/google_utils.py and of its callers in backend/main.py.          *)
(*                                                                         *)
(* The workbook of one tenant is three sheets: the staging sheet, the      *)
(* queue sheet and the contact sheet.  Every call to the remote store or   *)
(* to object storage is one step, and every such call may fail.            *)
(***************************************************************************)
EXTENDS Integers, Sequences, FiniteSets, TLC

\* ------------------------------------------------------------------ bounds

\* Number of images a tenant uploads over one behaviour.
MaxFiles == 2
\* Cap on the rows of the queue sheet (a resubmission after a failed clear
\* can queue a row again and again).
MaxQueue == 2
\* Cap on the rows of the contact sheet (a row whose deletion keeps failing
\* can be drained again and again).
MaxContacts == 2

\* Length of a sub-account's username, in pieces (see EmailPieces).
MaxEmailPieces == 2

\* The workbooks one append call is followed through creating.
MaxWorkbooks == 2

\* Rows of the template sheet.
MaxTemplates == 3

\* Access tokens issued.
MaxTokens == 3

Files == 1..MaxFiles

\* -------------------------------------------------------- program constants

STAGING_SHEET_NAME == "Not_Submitted_Bulk"
QUEUE_SHEET_NAME == "Bulk_Submitted"
PENDING == "Pending Upload"
BULK_SOURCE == "Bulk Import"

\* The two kinds of tenant: process_bulk_queue_sync serves the primary tenant,
\* process_bulk_queue_sync_sub_account the sub-tenant.
TenantKinds == {"primary", "sub_account"}

\* The background workers that can run a drain.
Drainers == {"w1", "w2"}

\* The stage requests that may be served at the same time.
Callers == {"c1", "c2"}
NoStage == [pc |-> "idle", file |-> 0, missing |-> FALSE]

\* ------------------------------------------------- extraction output (JSON)

\* A JSON value of the extraction output: a missing key, null, a string
\* (v = <<s>>), a list of strings (v = the strings) or a list holding a
\* non-string item.
Missing == [t |-> "missing", v |-> <<>>]
Null == [t |-> "null", v |-> <<>>]
Str(s) == [t |-> "str", v |-> <<s>>]
List(ss) == [t |-> "list", v |-> ss]
NumList == [t |-> "numlist", v |-> <<>>]

Keys == {"fn", "org", "tel", "title", "email", "url", "adr", "cat", "notes"}
MultiKeys == {"fn", "tel", "email", "url", "adr"}

\* {} : every key missing.
EmptyDict == [k \in Keys |-> Missing]

\* The stub result of the end-to-end example.
JaneDict == [EmptyDict EXCEPT !["fn"] = List(<<"Jane Doe">>),
                              !["email"] = List(<<"jane@x.com">>)]
\* Malformed outputs: null, or a list of numbers, for a multi-valued field.
NullFnDict == [EmptyDict EXCEPT !["fn"] = Null]
NumTelDict == [JaneDict EXCEPT !["tel"] = NumList]
\* null for the category alone.
NullCatDict == [JaneDict EXCEPT !["cat"] = Null]

\* dict.get(key, default)
Get(d, k, default) == IF d[k].t = "missing" THEN default ELSE d[k]

\* Python truthiness of a JSON value.
Truthy(x) ==
  CASE x.t = "str" -> x.v[1] # ""
    [] x.t = "list" -> x.v # <<>>
    [] x.t = "numlist" -> TRUE
    [] OTHER -> FALSE

\* ", ".join(x) raises TypeError unless x is an iterable of strings.
JoinRaises(x) == x.t \in {"null", "numlist"}

RECURSIVE JoinSeq(_)
JoinSeq(ss) ==
  IF ss = <<>> THEN ""
  ELSE IF Len(ss) = 1 THEN ss[1]
  ELSE ss[1] \o ", " \o JoinSeq(Tail(ss))

\* ", ".join(x) for a list of strings.
Join(x) == JoinSeq(x.v)

\* force_text: None gives "", anything else str(value) behind a quote.
force_text(x) == IF x.t = "null" THEN "" ELSE "'" \o x.v[1]

\* The bulk drain's row encoding (the same in both drain functions).
\* RowRaises: the encoding raises TypeError.
RowRaises(cd) ==
  \/ Truthy(cd["cat"]) /\ JoinRaises(Get(cd, "cat", List(<<>>)))
  \/ \E k \in MultiKeys : JoinRaises(Get(cd, k, List(<<>>)))

cat_str(cd) ==
  IF Truthy(cd["cat"]) THEN Join(Get(cd, "cat", List(<<>>))) ELSE ""

JoinedCell(cd, k) == force_text(Str(Join(Get(cd, k, List(<<>>)))))
ScalarCell(cd, k) == force_text(Get(cd, k, Str("")))

\* A faulty encoding that writes the numbers before the business name.
NumbersBeforeBusiness(cd) ==
  << JoinedCell(cd, "fn"),
     JoinedCell(cd, "tel"),
     ScalarCell(cd, "org"),
     ScalarCell(cd, "title"),
     JoinedCell(cd, "email"),
     JoinedCell(cd, "url"),
     JoinedCell(cd, "adr"),
     force_text(Str(BULK_SOURCE)),
     force_text(Str(cat_str(cd))),
     ScalarCell(cd, "notes") >>

RowData(cd) ==
  << JoinedCell(cd, "fn"),
     ScalarCell(cd, "org"),
     JoinedCell(cd, "tel"),
     ScalarCell(cd, "title"),
     JoinedCell(cd, "email"),
     JoinedCell(cd, "url"),
     JoinedCell(cd, "adr"),
     force_text(Str(BULK_SOURCE)),
     force_text(Str(cat_str(cd))),
     ScalarCell(cd, "notes") >>

\* The row of an empty extraction result.
BlankRow == RowData(EmptyDict)

\* What the OCR + LLM call does for one image: the model raises (or answers
\* with something that is not JSON), answers with a JSON list or scalar, or
\* answers with a JSON object.
RawOutcomes ==
  {[kind |-> "raises", d |-> EmptyDict],
   [kind |-> "json_list", d |-> JaneDict]}
  \cup {[kind |-> "json_dict", d |-> x] :
          x \in {EmptyDict, JaneDict, NullFnDict, NumTelDict, NullCatDict}}

\* A Python value handed back by an extraction function: a dict, a list of
\* dicts, or anything else.
PyDict(x) == [type |-> "dict", d |-> x, items |-> <<>>]
PyList(xs) == [type |-> "list", d |-> EmptyDict, items |-> xs]

\* A faulty extraction that tests for a list before it reads the keys, and
\* so hands on the first element of a JSON list.
ListTestFirst(raw) ==
  IF raw.kind = "raises" THEN PyDict(EmptyDict) ELSE PyDict(raw.d)

\* sync_process_image_logic: the OCR call swallows its own errors, and every
\* exception of the LLM call and of the parsing gives {} ; data.keys() is
\* called before the list test, so a JSON list ends in the except branch too.
sync_process_image_logic(raw) ==
  IF raw.kind = "json_dict" THEN PyDict(raw.d) ELSE PyDict(EmptyDict)

\* The drain's normalisation of the extraction result: the first element of
\* a list, {} for an empty list and for anything that is not a dict.
Normalise(val) ==
  CASE val.type = "dict" -> val.d
    [] val.type = "list" /\ Len(val.items) > 0 -> val.items[1]
    [] OTHER -> EmptyDict

\* ------------------------------------------------------------- the workbook

HEADERS_V2 ==
  << "Contact Name", "Business Name", "Contact Numbers", "Job Title", "Emails",
     "Websites", "Address", "Import Source", "Business Category", "AI Notes" >>

\* The nine-column layout of a sheet that predates the category column.
HEADERS_V1 ==
  << "Contact Name", "Business Name", "Contact Numbers", "Job Title", "Emails",
     "Websites", "Address", "Import Source", "AI Notes" >>

\* A row written under the nine-column layout.
LegacyCells == << "'Old", "'", "'", "'", "'", "'", "'", "'Scan", "'note" >>

\* A faulty batch that clears column I where it stands and moves nothing.
ClearColumnI(cells) ==
  IF Len(cells) <= 8 THEN cells ELSE [cells EXCEPT ![9] = ""]

\* insertDimension COLUMNS [8, 9): a new empty cell at column I of one row.
InsertColumnI(cells) ==
  IF Len(cells) <= 8 THEN cells
  ELSE SubSeq(cells, 1, 8) \o <<"">> \o SubSeq(cells, 9, Len(cells))

\* A faulty batch that leaves the header cell of the new column empty.
HeaderLeftEmpty(hs) == hs

\* updateCells row 0, column 8: the header cell of column I.
SetHeaderI(hs) ==
  IF Len(hs) >= 9 THEN [hs EXCEPT ![9] = "Business Category"]
  ELSE hs \o [i \in 1..(8 - Len(hs)) |-> ""] \o <<"Business Category">>

InSeq(x, s) == \E i \in 1..Len(s) : s[i] = x

\* A staging or queue row.
Row(f) == <<f, PENDING>>

VARIABLES
  tenant,        \* the kind of the tenant whose sheets these are
  faults,        \* the calls to the store, to object storage and to the
                 \* extraction can fail in this behaviour
  sheetsExist,   \* the staging and the queue sheet exist in the workbook
  staging,       \* rows of the staging sheet
  queue,         \* rows of the queue sheet
  headers,       \* row 1 of the contact sheet
  contacts,      \* data rows of the contact sheet: [src, cells], src the
                 \* file the row was extracted from (0: a legacy row)
  drive,         \* file IDs of the images in object storage
  nextFile,      \* the file ID the next upload gets
  ret,           \* the answer of the step just taken when it ended a submit
                 \* (Count(n) or Raised) or a cancel (Cleared or
                 \* CancelFailed); NoAnswer after any other step
  staged,        \* history: file IDs returned by stage since the staging
                 \* sheet was last emptied
  tasks,         \* background drain tasks handed off and not yet started
  pc,            \* per worker: where its drain run stands
  file_id,       \* per worker: the file ID read from the head row
  contact_data,  \* per worker: the normalised extraction result
  row_data,      \* per worker: the encoded contact row
  item,          \* per worker, history: what happened to the item in hand
  run,           \* per worker, history of its run, kept by an observer of
                 \* the steps (RunObserved) where runs are not interleaved
                 \* with requests
  req,           \* the submit or cancel request that is served call by
                 \* call: how far it is and the rows it has read
  revoked,       \* the tenant's delegated credentials were revoked
  subs,          \* the sub-accounts of one enterprise admin: per record its
                 \* email (the username) and its stored sheet name
  book,          \* the admin's workbook shared by the admin and the
                 \* sub-accounts: the rows of every sheet, by title
  save,          \* the single-contact save request: how far it is, its
                 \* row, and (history) the workbooks its append created
  gone,          \* the workbook of the stored ID is missing (404)
  templates,     \* the rows of the template sheet: per row its Is Active
                 \* cell ("TRUE", "FALSE" or empty)
  email_feature_enabled,  \* the tenant's email-on-save switch
  current_session_id,    \* per account: the stored session ID (0: None)
  is_active,             \* per sub-account: not deactivated by the admin
  tokens,                \* history: the access tokens issued so far, each
                         \* with its account and its session ID
  stage                  \* per stage request served call by call: where
                         \* it stands, the ID of its uploaded image and
                         \* whether it found titles missing

vars ==
  << tenant, faults, sheetsExist, staging, queue, headers, contacts, drive, nextFile,
     ret, staged, tasks, pc, file_id, contact_data, row_data, item, run,
     req, revoked, subs, book, save, gone, templates,
     email_feature_enabled, current_session_id, is_active, tokens,
     stage >>

sheetVars == << sheetsExist, staging, queue, headers, contacts >>
adminVars == << subs, book >>
saveVars == << save, gone >>
mailVars == << templates, email_feature_enabled >>
authVars == << current_session_id, is_active, tokens >>
localVars == << file_id, contact_data, row_data, item >>

\* What a submit request answers: the count of the rows moved, or an error
\* response; NoAnswer where the step just taken was no submit.
NoAnswer == [kind |-> "none", n |-> 0]
Raised == [kind |-> "raised", n |-> 0]
Count(n) == [kind |-> "count", n |-> n]
\* What a cancel request answers: {"status": "cleared"}, or an error response.
Cleared == [kind |-> "cleared", n |-> 0]
CancelFailed == [kind |-> "cancel_failed", n |-> 0]

\* A faulty outer except that swallows the error and lets the loop go on.
OnErrorContinue == "read"

\* The outer except of the drain loop: the error is printed and the loop is
\* left.
OnError == "aborted"

\* A run is over when the loop was left: the queue was read empty, an
\* exception broke the loop, or no credentials were there at the start.
Terminal == {"drained", "aborted", "nocreds"}
Resting == {"idle"} \cup Terminal
Running(d) == pc[d] \notin Resting

FilesOf(rows) == [i \in 1..Len(rows) |-> rows[i][1]]

\* No run to remember, and the history where none is kept.
NoRun ==
  [on |-> TRUE, q0 |-> <<>>, c0 |-> 0, n |-> 0, dlFail |-> {},
   lost |-> FALSE]
Unobserved == [NoRun EXCEPT !.on = FALSE]
\* The run whose history the observer gave up: a deletion of the head row
\* failed, or the loop was left on an exception.
LostRun == [NoRun EXCEPT !.lost = TRUE]
\* Nothing is known yet of the item in hand.
\* dl: the download ("ok", "fail"); ex: the extraction ("ok"; "raised": the
\* call or the parsing raised inside; "malformed": a JSON object the row
\* encoding cannot join); appended: its contact row was appended;
\* checked: ensure_schema_v2 was called on its way to the append;
\* mailFailed: its email step raised.
NoItem ==
  [dl |-> "none", ex |-> "none", checked |-> FALSE, appended |-> FALSE,
   mailFailed |-> FALSE]

\* A faulty store that goes on accepting revoked credentials.
AuthorizedAlways == TRUE

\* The services are built on the tenant's delegated credentials: a call is
\* accepted while they are not revoked.
Authorized == ~revoked

\* A call to the store or to object storage can fail in this state.
Fails == faults \/ ~Authorized

\* ------------------------------------------- the sheets of a shared workbook

\* Sheet titles are strings built by concatenation; a string is modelled as
\* the sequence of its pieces.  No piece is a prefix of another, so two
\* sequences of pieces are equal exactly when the strings are.

\* The title of the first sheet of a new spreadsheet, on which the admin's
\* contact rows live (ranges without a sheet name address it).
FIRST_SHEET == "Sheet1"

\* The pieces a sub-account's username is made of: SubAccountCreate.email is
\* any string.
EmailPieces == {"ann", "_Not_Submitted"}

\* Sequences over a set, of length 1 to n.
Words(alphabet, n) == UNION {[1..k -> alphabet] : k \in 1..n}

Emails == Words(EmailPieces, MaxEmailPieces)

\* The records of the admin's sub-accounts (the licence caps their number).
SubIds == {"s1", "s2"}

\* No sub-account in this record; sheet_name <<>> is None.
NoSub == [email |-> <<>>, sheet_name |-> <<>>]

\* create_sub_account_sheet: the title of a sub-account's contact sheet.
SubSheetName(email) == << "SubAccount_" >> \o email

\* get_sub_account_bulk_sheet_names.
SubStagingName(sheet_name) == sheet_name \o << "_Not_Submitted" >>
SubQueueName(sheet_name) == sheet_name \o << "_Bulk_Submitted" >>

\* The tenants of the workbook: the admin, who owns it, and the
\* sub-accounts whose sheet name is stored.
Admin == "admin"
Tenants == {Admin} \cup {s \in SubIds : subs[s].sheet_name # <<>>}

\* The contact, staging and queue sheet of a tenant.
Resolve(t) ==
  IF t = Admin
    THEN [contact |-> << FIRST_SHEET >>,
          staging |-> << STAGING_SHEET_NAME >>,
          queue |-> << QUEUE_SHEET_NAME >>]
    ELSE [contact |-> subs[t].sheet_name,
          staging |-> SubStagingName(subs[t].sheet_name),
          queue |-> SubQueueName(subs[t].sheet_name)]

NamesOf(t) == {Resolve(t).contact, Resolve(t).staging, Resolve(t).queue}

\* create_spreadsheet_in_folder: a new workbook has one sheet, with the
\* header row (kept apart from the data rows here).
NewBook == [t \in {<< FIRST_SHEET >>} |-> <<>>]

Titles == DOMAIN book

\* addSheet for every title of the list that is not yet in the workbook.
WithSheets(b, titles) ==
  [t \in DOMAIN b \cup titles |-> IF t \in DOMAIN b THEN b[t] ELSE <<>>]

\* No save request is being served.
NoSave == [pc |-> "idle", row |-> <<>>, made |-> 0]

\* No request is between two of its calls.
NoReq == [op |-> "none", rows |-> <<>>]

Start ==
  /\ tenant \in TenantKinds
  /\ sheetsExist = (tenant = "sub_account")
  /\ staging = <<>>
  /\ queue = <<>>
  /\ \/ headers = HEADERS_V2 /\ contacts = <<>>
     \/ /\ tenant = "primary"
        /\ headers = HEADERS_V1
        /\ contacts = << [src |-> 0, cells |-> LegacyCells] >>
  /\ drive = {}
  /\ nextFile = 1
  /\ ret = NoAnswer
  /\ staged = <<>>
  /\ tasks = 0
  /\ pc = [d \in Drainers |-> "idle"]
  /\ file_id = [d \in Drainers |-> 0]
  /\ contact_data = [d \in Drainers |-> EmptyDict]
  /\ row_data = [d \in Drainers |-> <<>>]
  /\ item = [d \in Drainers |-> NoItem]
  /\ req = NoReq
  /\ revoked = FALSE
  /\ subs = [s \in SubIds |-> NoSub]
  /\ book = NewBook
  /\ save = NoSave
  /\ gone = FALSE
  /\ templates = <<>>
  /\ email_feature_enabled = FALSE
  /\ current_session_id = [a \in {Admin} \cup SubIds |-> 0]
  /\ is_active = [a \in SubIds |-> TRUE]
  /\ tokens = <<>>
  /\ stage = [c \in Callers |-> NoStage]

Init == Start /\ faults = TRUE /\ run = [d \in Drainers |-> Unobserved]

\* The observer of a run, where a history is kept: the queue and the number
\* of contact rows at its start, the number of head rows it has deleted, and
\* the positions (in the queue at the start) of the items whose download
\* failed.  It gives up when a deletion of the head row fails or the loop
\* is left on an exception.
RunObserved(d) ==
  IF ~run[d].on THEN run[d]
  ELSE IF pc[d] \in Resting THEN
    IF pc'[d] = "read"
      THEN [NoRun EXCEPT !.q0 = FilesOf(queue), !.c0 = Len(contacts)]
      ELSE NoRun
  ELSE IF run[d].lost THEN run[d]
  ELSE IF pc'[d] = "aborted" THEN LostRun
  ELSE IF pc[d] = "download" /\ item'[d].dl = "fail" THEN
    [run[d] EXCEPT !.dlFail = @ \cup {run[d].n + 1}]
  ELSE IF pc[d] \in {"delete", "skip_delete"} THEN
    IF Len(queue') < Len(queue) THEN [run[d] EXCEPT !.n = @ + 1]
    ELSE LostRun
  ELSE run[d]

Observe == run' = [d \in Drainers |-> RunObserved(d)]

\* A finished run leaves nothing behind: with the next request of the tenant
\* the worker is idle again.
Forget ==
  /\ pc' = [d \in Drainers |-> IF pc[d] \in Terminal THEN "idle" ELSE pc[d]]
  /\ file_id' = [d \in Drainers |->
                   IF pc[d] \in Terminal THEN 0 ELSE file_id[d]]
  /\ item' = [d \in Drainers |->
                IF pc[d] \in Terminal THEN NoItem ELSE item[d]]

\* ------------------------------------------------------------------- stage

\* The staging sheet after values.append of one row.
StagingAppend(rows, f) == Append(rows, Row(f))

\* stage_bulk_image / stage_bulk_image_sub_account, the whole request: the
\* upload of the image, ensure_bulk_sheets (ensure_sub_account_bulk_sheets),
\* the append of (file_id, "Pending Upload") to the staging sheet.  A failed
\* upload changes nothing; a failure after the upload leaves the image.
Stage ==
  /\ nextFile <= MaxFiles
  /\ Authorized
  /\ drive' = drive \cup {nextFile}
  /\ nextFile' = nextFile + 1
  /\ ret' = NoAnswer
  /\ \/ /\ faults
        /\ UNCHANGED << sheetsExist, staging, staged >>
     \/ /\ faults
        /\ sheetsExist' = TRUE
        /\ UNCHANGED << staging, staged >>
     \/ /\ sheetsExist' = TRUE
        /\ staging' = StagingAppend(staging, nextFile)
        /\ staged' = Append(staged, nextFile)
  /\ Forget
  /\ UNCHANGED << tenant, stage, authVars, mailVars, saveVars, adminVars, faults, revoked, req, queue, headers, contacts, tasks, contact_data,
                  row_data >>
  /\ Observe

\* ------------------------------------------------------------------ submit

\* A faulty move that writes the rows above the queue's rows.
QueuePrepend(q, rows) == rows \o q

\* The queue sheet after values.append of the rows read.
QueueAppend(q, rows) == q \o rows

\* A faulty clear that empties only the first row.
OnlyHeadCleared(rows) == IF rows = <<>> THEN rows ELSE Tail(rows)

\* The staging sheet after values.clear of A:B.
StagingCleared(rows) == <<>>

\* The count submit_bulk_session returns for the rows it moved.
MovedCount(rows) == Len(rows)

\* A faulty endpoint that adds the background task whatever the count.
HandsOffAlways(count) == count >= 0

\* submit_bulk: the drain is handed to a background task when the count is
\* positive.
HandsOff(count) == count > 0

\* submit_bulk with submit_bulk_session (submit_bulk_session_sub_account):
\* the read of the staging sheet; with no rows, 0 and nothing else; the
\* append of the rows to the queue sheet; the clear of the staging sheet;
\* the count, and one drain handed to a background task when it is
\* positive.  Any failing call raises: no count and no drain.
Submit ==
  \/ /\ Fails \/ ~sheetsExist
     /\ ret' = Raised
     /\ UNCHANGED << staging, queue, staged, tasks >>
  \/ /\ sheetsExist /\ Authorized
     /\ staging = <<>>
     /\ ret' = Count(0)
     /\ tasks' = IF HandsOff(0) THEN tasks + 1 ELSE tasks
     /\ UNCHANGED << staging, queue, staged >>
  \/ /\ sheetsExist /\ Authorized
     /\ staging # <<>>
     /\ Len(queue) + Len(staging) <= MaxQueue
     /\ queue' = QueueAppend(queue, staging)
     /\ \/ /\ staging' = StagingCleared(staging)
           /\ staged' = <<>>
           /\ ret' = Count(MovedCount(staging))
           /\ tasks' = IF HandsOff(MovedCount(staging)) THEN tasks + 1
                                                          ELSE tasks
        \/ /\ faults
           /\ ret' = Raised
           /\ UNCHANGED << staging, staged, tasks >>

SubmitBulk ==
  /\ Submit
  /\ Forget
  /\ UNCHANGED << tenant, stage, authVars, mailVars, saveVars, adminVars, faults, revoked, req, sheetsExist, headers, contacts, drive, nextFile,
                  contact_data, row_data >>
  /\ Observe

\* ------------------------------------------- a request served call by call

\* A request between two of its calls holds the rows it has read.
InFlight(op, rows) == [op |-> op, rows |-> rows]

\* submit_bulk_session, its first call: values.get of <staging>!A:B.  A
\* failure raises; no rows answer 0; otherwise the rows are held.
SubmitRead ==
  /\ req = NoReq
  /\ \/ /\ Fails \/ ~sheetsExist
        /\ ret' = Raised
        /\ UNCHANGED << req, tasks >>
     \/ /\ sheetsExist /\ Authorized
        /\ staging = <<>>
        /\ ret' = Count(0)
        /\ tasks' = IF HandsOff(0) THEN tasks + 1 ELSE tasks
        /\ UNCHANGED req
     \/ /\ sheetsExist /\ Authorized
        /\ staging # <<>>
        /\ req' = InFlight("submit_read", staging)
        /\ ret' = NoAnswer
        /\ UNCHANGED tasks
  /\ Forget
  /\ UNCHANGED << tenant, stage, authVars, mailVars, saveVars, adminVars, faults, revoked, sheetVars, drive, nextFile, staged,
                  contact_data, row_data >>
  /\ Observe

\* Its second call: values.append of the rows read to the queue sheet.
SubmitAppend ==
  /\ req.op = "submit_read"
  /\ \/ /\ Authorized
        /\ Len(queue) + Len(req.rows) <= MaxQueue
        /\ queue' = QueueAppend(queue, req.rows)
        /\ req' = InFlight("submit_appended", req.rows)
        /\ ret' = NoAnswer
     \/ /\ Fails
        /\ req' = NoReq
        /\ ret' = Raised
        /\ UNCHANGED queue
  /\ Forget
  /\ UNCHANGED << tenant, stage, authVars, mailVars, saveVars, adminVars, faults, revoked, sheetsExist, staging, headers, contacts,
                  drive, nextFile, staged, tasks, contact_data, row_data >>
  /\ Observe

\* Its third call, values.clear of <staging>!A:B, and the return to
\* submit_bulk: the count of the rows read, and the hand-off of the drain.
SubmitClear ==
  /\ req.op = "submit_appended"
  /\ req' = NoReq
  /\ \/ /\ Authorized
        /\ staging' = StagingCleared(staging)
        /\ staged' = <<>>
        /\ ret' = Count(MovedCount(req.rows))
        /\ tasks' = IF HandsOff(MovedCount(req.rows)) THEN tasks + 1
                                                       ELSE tasks
     \/ /\ Fails
        /\ ret' = Raised
        /\ UNCHANGED << staging, staged, tasks >>
  /\ Forget
  /\ UNCHANGED << tenant, stage, authVars, mailVars, saveVars, adminVars, faults, revoked, sheetsExist, queue, headers, contacts,
                  drive, nextFile, contact_data, row_data >>
  /\ Observe

\* ------------------------------------------------------------------ cancel

\* row[0] of each row read: the files the loop deletes.
ImagesOf(rows) == {rows[i][1] : i \in 1..Len(rows)}

\* A faulty loop in which a failed deletion of an image ends the request.
ImageDeleteFailurePropagates == "none"

\* The except of the loop over the staged rows: a failed deletion of an
\* image is passed over and the request goes on.
AfterImageDeleteFailed == "cancel_deleted"

\* cancel_bulk with clear_staging_data (clear_staging_data_sub_account), its
\* first call: values.get of <staging>!A:A.  A failure raises.
CancelRead ==
  /\ req = NoReq
  /\ \/ /\ Fails \/ ~sheetsExist
        /\ ret' = CancelFailed
        /\ UNCHANGED req
     \/ /\ sheetsExist /\ Authorized
        /\ req' = InFlight("cancel_read", staging)
        /\ ret' = NoAnswer
  /\ Forget
  /\ UNCHANGED << tenant, stage, authVars, mailVars, saveVars, adminVars, faults, revoked, sheetVars, drive, nextFile, staged, tasks,
                  contact_data, row_data >>
  /\ Observe

\* The loop over the rows read: files.delete of each row's image.  The
\* deletion of an image that is not there fails, and any other may.
CancelDelete ==
  /\ req.op = "cancel_read"
  /\ \E deleted \in SUBSET (ImagesOf(req.rows) \cap drive) :
       /\ Authorized \/ deleted = {}
       /\ faults \/ ~Authorized \/ deleted = ImagesOf(req.rows) \cap drive
       /\ drive' = drive \ deleted
       /\ req' = IF deleted = ImagesOf(req.rows)
                   THEN InFlight("cancel_deleted", <<>>)
                   ELSE InFlight(AfterImageDeleteFailed, <<>>)
  /\ ret' = NoAnswer
  /\ Forget
  /\ UNCHANGED << tenant, stage, authVars, mailVars, saveVars, adminVars, faults, revoked, sheetVars, nextFile, staged, tasks,
                  contact_data, row_data >>
  /\ Observe

\* Its last call: values.clear of <staging>!A:B.  A failure raises.
CancelClear ==
  /\ req.op = "cancel_deleted"
  /\ req' = NoReq
  /\ \/ /\ Authorized
        /\ staging' = StagingCleared(staging)
        /\ staged' = <<>>
        /\ ret' = Cleared
     \/ /\ Fails
        /\ ret' = CancelFailed
        /\ UNCHANGED << staging, staged >>
  /\ Forget
  /\ UNCHANGED << tenant, stage, authVars, mailVars, saveVars, adminVars, faults, revoked, sheetsExist, queue, headers, contacts,
                  drive, nextFile, tasks, contact_data, row_data >>
  /\ Observe

\* ------------------------------------------------------------ the drain run

\* The worker's locals between two items and after the run.
ClearLocals(d) ==
  /\ file_id' = [file_id EXCEPT ![d] = 0]
  /\ contact_data' = [contact_data EXCEPT ![d] = EmptyDict]
  /\ row_data' = [row_data EXCEPT ![d] = <<>>]
  /\ item' = [item EXCEPT ![d] = NoItem]

\* The extraction result and the row are dead once the loop is left.
DropResult(d) ==
  /\ contact_data' = [contact_data EXCEPT ![d] = EmptyDict]
  /\ row_data' = [row_data EXCEPT ![d] = <<>>]

\* background_bulk_worker starts process_bulk_queue_sync (or the sub-tenant's
\* twin): get_google_creds, and without credentials the run returns at once.
DrainStart(d) ==
  /\ pc[d] \in Resting
  /\ tasks > 0
  /\ tasks' = tasks - 1
  /\ \/ pc' = [pc EXCEPT ![d] = "read"]
     \/ (faults \/ revoked) /\ pc' = [pc EXCEPT ![d] = "nocreds"]
  /\ ClearLocals(d)
  /\ ret' = NoAnswer
  /\ UNCHANGED << tenant, stage, authVars, mailVars, saveVars, adminVars, faults, revoked, req, sheetVars, drive, nextFile, staged >>
  /\ Observe

\* A faulty read that takes the file ID of the last row.
LastFile(q) == q[Len(q)][1]

\* rows[0][0] of the range A1:B1: the file ID of the head row.
HeadFile(q) == q[1][1]

\* The read of <queue>!A1:B1.  An error breaks the loop; no row ends the run.
ReadHead(d) ==
  /\ pc[d] = "read"
  /\ \/ /\ Fails \/ ~sheetsExist
        /\ pc' = [pc EXCEPT ![d] = OnError]
        /\ UNCHANGED << file_id, item >>
     \/ /\ sheetsExist /\ Authorized
        /\ queue = <<>>
        /\ pc' = [pc EXCEPT ![d] = "drained"]
        /\ UNCHANGED << file_id, item >>
     \/ /\ sheetsExist /\ Authorized
        /\ queue # <<>>
        /\ file_id' = [file_id EXCEPT ![d] = HeadFile(queue)]
        /\ item' = [item EXCEPT ![d] = NoItem]
        /\ pc' = [pc EXCEPT ![d] = "download"]
  /\ ret' = NoAnswer
  /\ UNCHANGED << tenant, stage, authVars, mailVars, saveVars, adminVars, faults, revoked, req, sheetVars, drive, nextFile, staged, tasks,
                  contact_data, row_data >>
  /\ Observe

\* A faulty handler of the failed download that goes on with the item.
ProcessAnyway == "extract"

\* The handler of a failed download: the head row is deleted and the loop
\* continues.
AfterDownloadFailed == "skip_delete"

\* The download of the image: it fails when the image is gone, and it may
\* fail for any other reason.  After a failure the head row is deleted and
\* the loop continues.
Download(d) ==
  /\ pc[d] = "download"
  /\ \/ /\ file_id[d] \in drive /\ Authorized
        /\ pc' = [pc EXCEPT ![d] = "extract"]
        /\ item' = [item EXCEPT ![d].dl = "ok"]
     \/ /\ Fails \/ file_id[d] \notin drive
        /\ pc' = [pc EXCEPT ![d] = AfterDownloadFailed]
        /\ item' = [item EXCEPT ![d].dl = "fail"]
  /\ ret' = NoAnswer
  /\ UNCHANGED << tenant, stage, authVars, mailVars, saveVars, adminVars, faults, revoked, req, sheetVars, drive, nextFile, staged, tasks,
                  file_id, contact_data, row_data >>
  /\ Observe

\* A faulty loop that drops the head row of a result it cannot encode.
DropUnencodable(cd) == IF RowRaises(cd) THEN "delete" ELSE "schema"

\* What the loop does with the extraction result: the row encoding raises
\* and the loop is left, or the row goes on to the append.
AfterExtract(cd) == IF RowRaises(cd) THEN OnError ELSE "schema"

\* What the extraction can answer in this behaviour: anything, or, where
\* nothing fails, a JSON object the row encoding can join.
Outcomes ==
  IF faults THEN RawOutcomes
  ELSE {r \in RawOutcomes : r.kind = "json_dict" /\ ~RowRaises(r.d)}

\* process_func, the normalisation of its result and the row encoding.  When
\* the encoding raises, the loop is left and the result is dead.
Extract(d) ==
  /\ pc[d] = "extract"
  /\ \E raw \in Outcomes :
       LET cd == Normalise(sync_process_image_logic(raw)) IN
         /\ contact_data' = [contact_data EXCEPT ![d] =
                               IF RowRaises(cd) THEN EmptyDict ELSE cd]
         /\ row_data' = [row_data EXCEPT ![d] =
                           IF RowRaises(cd) THEN <<>> ELSE RowData(cd)]
         /\ item' = [item EXCEPT ![d].ex =
                       IF raw.kind # "json_dict" THEN "raised"
                       ELSE IF RowRaises(cd) THEN "malformed" ELSE "ok"]
         /\ pc' = [pc EXCEPT ![d] = AfterExtract(cd)]
  /\ ret' = NoAnswer
  /\ UNCHANGED << tenant, stage, authVars, mailVars, saveVars, adminVars, faults, revoked, req, sheetVars, drive, nextFile, staged, tasks,
                  file_id >>
  /\ Observe

\* ensure_schema_v2 on a sheet without the category header: one batch that
\* inserts column I in every row and labels its header cell.
MigratedHeaders(hs) == SetHeaderI(InsertColumnI(hs))
MigratedRows(rows) ==
  [i \in 1..Len(rows) |-> [rows[i] EXCEPT !.cells = InsertColumnI(@)]]

\* A faulty schema check whose failure reaches the caller's except.
MigrationFailurePropagates == "aborted"

\* The two excepts of ensure_schema_v2: the failure is printed and the
\* caller goes on to its append.
AfterMigrationFailed == "append"

\* append_to_sheet up to the append: ensure_creds (which raises without
\* credentials) and the first call of ensure_schema_v2, the read of the
\* header row A1:Z1; with the category header there the check returns, and
\* a failure of the read is swallowed.
\* append_to_sub_account_sheet: ensure_creds and the refresh of the
\* sub-account record, either of which may raise; no schema check.
Schema(d) ==
  /\ pc[d] = "schema"
  /\ \/ /\ faults
        /\ pc' = [pc EXCEPT ![d] = OnError]
        /\ DropResult(d)
        /\ UNCHANGED item
     \/ /\ tenant = "primary"
        /\ InSeq("Business Category", headers)
        /\ pc' = [pc EXCEPT ![d] = "append"]
        /\ item' = [item EXCEPT ![d].checked = TRUE]
        /\ UNCHANGED << contact_data, row_data >>
     \/ /\ tenant = "primary"
        /\ ~InSeq("Business Category", headers)
        /\ item' = [item EXCEPT ![d].checked = TRUE]
        /\ \/ Authorized /\ pc' = [pc EXCEPT ![d] = "migrate"]
           \/ Fails /\ pc' = [pc EXCEPT ![d] = AfterMigrationFailed]
        /\ UNCHANGED << contact_data, row_data >>
     \/ /\ tenant = "sub_account"
        /\ pc' = [pc EXCEPT ![d] = "append"]
        /\ UNCHANGED << contact_data, row_data, item >>
  /\ ret' = NoAnswer
  /\ UNCHANGED << tenant, stage, authVars, mailVars, saveVars, adminVars, faults, revoked, req, sheetVars, drive,
                  nextFile, staged, tasks, file_id >>
  /\ Observe

\* The rest of ensure_schema_v2 after a header row without the category
\* header was read: the sheet ID of the first sheet is fetched and the
\* batch is sent, whatever the header row holds by now.  A failure of
\* either call is swallowed.
Migrate(d) ==
  /\ pc[d] = "migrate"
  /\ \/ /\ Authorized
        /\ headers' = MigratedHeaders(headers)
        /\ contacts' = MigratedRows(contacts)
        /\ pc' = [pc EXCEPT ![d] = "append"]
     \/ /\ Fails
        /\ UNCHANGED << headers, contacts >>
        /\ pc' = [pc EXCEPT ![d] = AfterMigrationFailed]
  /\ ret' = NoAnswer
  /\ UNCHANGED << tenant, stage, authVars, mailVars, saveVars, adminVars, faults, revoked, req, sheetsExist,
                  staging, queue, drive, nextFile, staged, tasks, localVars >>
  /\ Observe

\* A faulty append that writes the row above the data rows.
ContactPrepend(rows, f, cells) == << [src |-> f, cells |-> cells] >> \o rows

\* The contact sheet after values.append of one row.
ContactAppend(rows, f, cells) == Append(rows, [src |-> f, cells |-> cells])

\* The append of the contact row.  A failure raises and breaks the loop.
AppendRow(d) ==
  /\ pc[d] = "append"
  /\ \/ /\ Authorized
        /\ Len(contacts) < MaxContacts
        /\ contacts' = ContactAppend(contacts, file_id[d], row_data[d])
        /\ item' = [item EXCEPT ![d].appended = TRUE]
        /\ pc' = [pc EXCEPT ![d] = "email"]
        /\ UNCHANGED << contact_data, row_data >>
     \/ /\ Fails
        /\ pc' = [pc EXCEPT ![d] = OnError]
        /\ DropResult(d)
        /\ UNCHANGED << contacts, item >>
  /\ ret' = NoAnswer
  /\ UNCHANGED << tenant, stage, authVars, mailVars, saveVars, adminVars, faults, revoked, req, sheetsExist, staging, queue, headers, drive,
                  nextFile, staged, tasks, file_id >>
  /\ Observe

\* A faulty email step whose exception reaches the outer except.
EmailFailurePropagates == "aborted"

\* The except of the email step: the exception is printed (primary tenant)
\* or passed over (sub-tenant) and the item goes on to the cleanup.
AfterEmailFailed == "cleanup"

\* The email step: skipped, sent, or failed with the exception swallowed.
Email(d) ==
  /\ pc[d] = "email"
  /\ \/ /\ pc' = [pc EXCEPT ![d] = "cleanup"]
        /\ UNCHANGED item
     \/ /\ Fails
        /\ pc' = [pc EXCEPT ![d] = AfterEmailFailed]
        /\ item' = [item EXCEPT ![d].mailFailed = TRUE]
  /\ ret' = NoAnswer
  /\ UNCHANGED << tenant, stage, authVars, mailVars, saveVars, adminVars, faults, revoked, req, sheetVars, drive, nextFile, staged, tasks,
                  file_id, contact_data, row_data >>
  /\ Observe

\* The deletion of the source image; a failure is swallowed.
Cleanup(d) ==
  /\ pc[d] = "cleanup"
  /\ \/ Authorized /\ drive' = drive \ {file_id[d]}
     \/ Fails /\ UNCHANGED drive
  /\ pc' = [pc EXCEPT ![d] = "delete"]
  /\ ret' = NoAnswer
  /\ UNCHANGED << tenant, stage, authVars, mailVars, saveVars, adminVars, faults, revoked, req, sheetVars, nextFile, staged, tasks, localVars >>
  /\ Observe

\* A faulty deletion that takes the last row of the sheet.
LastRowDeleted(q) == IF q = <<>> THEN q ELSE SubSeq(q, 1, Len(q) - 1)

\* The queue sheet after deleteDimension ROWS [0, 1).
TopRowDeleted(q) == IF q = <<>> THEN q ELSE Tail(q)

\* A faulty deletion whose failure reaches the outer except.
DeleteFailurePropagates == "aborted"

\* The bare except of delete_top_row_from_sheet: the failure is passed over
\* and the loop goes back to the read.
AfterDeleteFailed == "read"

\* delete_top_row_from_sheet, after the item was processed and after a failed
\* download; its failure is swallowed.  The loop goes back to the read, and
\* the locals of the item are dead.
DeleteTop(d) ==
  /\ pc[d] \in {"delete", "skip_delete"}
  /\ \/ /\ Authorized
        /\ queue' = TopRowDeleted(queue)
        /\ pc' = [pc EXCEPT ![d] = "read"]
     \/ /\ Fails
        /\ UNCHANGED queue
        /\ pc' = [pc EXCEPT ![d] = AfterDeleteFailed]
  /\ ClearLocals(d)
  /\ ret' = NoAnswer
  /\ UNCHANGED << tenant, stage, authVars, mailVars, saveVars, adminVars, faults, revoked, req, sheetsExist, staging, headers, contacts, drive,
                  nextFile, staged, tasks >>
  /\ Observe

Worker(d) ==
  \/ DrainStart(d)
  \/ ReadHead(d)
  \/ Download(d)
  \/ Extract(d)
  \/ Schema(d)
  \/ Migrate(d)
  \/ AppendRow(d)
  \/ Email(d)
  \/ Cleanup(d)
  \/ DeleteTop(d)

\* --------------------------------------------------------- specifications

\* One tenant and one background worker, so one drain at a time: the next
\* drain starts when the worker is at rest.  Requests of the tenant are
\* served while the drain runs.
Next ==
  \/ Stage
  \/ SubmitBulk
  \/ Worker("w1")

Spec == Init /\ [][Next]_vars

\* The same tenant and worker with nothing concurrent: a request is served
\* only while no drain runs, and the history of each run is kept.
SeqInit == Start /\ faults = TRUE /\ run = [d \in Drainers |-> NoRun]

SeqStage == ~Running("w1") /\ Stage
SeqSubmitBulk == ~Running("w1") /\ SubmitBulk

SeqNext ==
  \/ SeqStage
  \/ SeqSubmitBulk
  \/ Worker("w1")

SeqSpec == SeqInit /\ [][SeqNext]_vars

\* The background task runs in a thread of its own that is not starved: a
\* worker step that stays possible is taken.
FairSeqSpec == SeqSpec /\ WF_vars(Worker("w1"))

\* The submit endpoint adds one background task per request and the tasks
\* run in a pool of threads: a second drain of the same queue can start
\* while the first still runs.
ConcNext ==
  \/ Stage
  \/ SubmitBulk
  \/ Worker("w1")
  \/ Worker("w2")

\* Two drains of one queue where no call fails.
ConcInit == Start /\ faults = FALSE /\ run = [d \in Drainers |-> Unobserved]

ConcSpec == ConcInit /\ [][ConcNext]_vars

\* The endpoints run in a pool of threads with no lock per tenant: while
\* one submit or cancel request is between two of its calls, other requests
\* of the tenant are served and the drain goes on.
ClientNext ==
  \/ Stage
  \/ SubmitBulk
  \/ SubmitRead
  \/ SubmitAppend
  \/ SubmitClear
  \/ CancelRead
  \/ CancelDelete
  \/ CancelClear
  \/ Worker("w1")

\* Interleaved requests where no call fails.
ClientSpec == ConcInit /\ [][ClientNext]_vars

\* The requests of the tenant around one cancel request, before any
\* drain has started; any call may fail.
CancelNext ==
  \/ Stage
  \/ SubmitBulk
  \/ CancelRead
  \/ CancelDelete
  \/ CancelClear

CancelSpec == Init /\ [][CancelNext]_vars

\* The tenant's consent is withdrawn at the provider: from now on every
\* call made with the delegated credentials is refused.
Revoke ==
  /\ ~revoked
  /\ revoked' = TRUE
  /\ ret' = NoAnswer
  /\ UNCHANGED << tenant, stage, authVars, mailVars, saveVars, adminVars, faults, req, sheetVars, drive, nextFile, staged,
                  tasks, pc, localVars >>
  /\ Observe

\* One tenant and one worker where no call fails for any other reason than
\* the revocation of the credentials, which can come at any time.
CredNext ==
  \/ Stage
  \/ SubmitBulk
  \/ Worker("w1")
  \/ Revoke

CredSpec == ConcInit /\ [][CredNext]_vars

\* ------------------------------------------ tenants sharing one workbook

\* The requests of the tenants of a shared workbook are modelled by what
\* they do to its sheets and to object storage; their answers are not kept.

\* A contact row in the shared workbook, cut down to the file it was
\* extracted from and its import source.
ContactRow(f) == << f, BULK_SOURCE >>

\* The titles create_sub_account_sheet adds, in the order of its calls.
SubSheets(name) == << name, SubStagingName(name), SubQueueName(name) >>

\* The workbook after the first n calls of create_sub_account_sheet that add
\* a sheet: each adds one title, and only a title that was not there when
\* the sheet list was read.
AfterAddSheetCalls(b, name, n) ==
  LET missing == SelectSeq(SubSheets(name), LAMBDA t : t \notin DOMAIN b)
  IN  WithSheets(b, {missing[i] : i \in 1..n})

\* The number of calls create_sub_account_sheet makes to add its sheets.
AddSheetCalls(b, name) ==
  Len(SelectSeq(SubSheets(name), LAMBDA t : t \notin DOMAIN b))

\* create_sub_account (POST /api/admin/sub-accounts): the email must not be
\* registered yet; the record is stored; create_sub_account_sheet adds the
\* contact, staging and queue sheet that are missing and stores the sheet
\* name.  Its failure is printed and passed over: the record stays without
\* a sheet name, with the sheets added so far.
CreateSub(s, e) ==
  /\ subs[s] = NoSub
  /\ \A x \in SubIds : subs[x].email # e
  /\ \/ /\ Authorized
        /\ book' = AfterAddSheetCalls(book, SubSheetName(e),
                                      AddSheetCalls(book, SubSheetName(e)))
        /\ subs' = [subs EXCEPT ![s] =
                      [email |-> e, sheet_name |-> SubSheetName(e)]]
     \/ /\ Fails
        /\ \E n \in 0..AddSheetCalls(book, SubSheetName(e)) :
             book' = AfterAddSheetCalls(book, SubSheetName(e), n)
        /\ subs' = [subs EXCEPT ![s] = [email |-> e, sheet_name |-> <<>>]]
  /\ ret' = NoAnswer
  /\ UNCHANGED << tenant, stage, authVars, mailVars, saveVars, faults, revoked, req, sheetVars, drive, nextFile,
                  staged, tasks, pc, localVars >>
  /\ Observe

CreateSubAccount == \E s \in SubIds, e \in Emails : CreateSub(s, e)

\* ensure_bulk_sheets / ensure_sub_account_bulk_sheets: one batchUpdate with
\* an addSheet for each of the two titles that is missing.
EnsureBulkSheets(b, t) == WithSheets(b, {Resolve(t).staging, Resolve(t).queue})

\* stage_bulk_image / stage_bulk_image_sub_account for a tenant of the
\* shared workbook.
BookStage(t) ==
  /\ nextFile <= MaxFiles
  /\ Authorized
  /\ drive' = drive \cup {nextFile}
  /\ nextFile' = nextFile + 1
  /\ LET b == EnsureBulkSheets(book, t)
         n == Resolve(t).staging
     IN  /\ Len(b[n]) < MaxQueue
         /\ book' = [b EXCEPT ![n] = StagingAppend(b[n], nextFile)]
  /\ ret' = NoAnswer
  /\ UNCHANGED << tenant, stage, authVars, mailVars, saveVars, subs, faults, revoked, req, sheetVars, staged,
                  tasks, pc, localVars >>
  /\ Observe

\* check_staging_count_for_user: the sheets are ensured and the rows of the
\* staging sheet counted.
BookCount(t) ==
  /\ Authorized
  /\ book' = EnsureBulkSheets(book, t)
  /\ ret' = NoAnswer
  /\ UNCHANGED << tenant, stage, authVars, mailVars, saveVars, subs, faults, revoked, req, sheetVars, drive,
                  nextFile, staged, tasks, pc, localVars >>
  /\ Observe

\* submit_bulk_session / submit_bulk_session_sub_account for a tenant of the
\* shared workbook.
BookSubmit(t) ==
  LET st == Resolve(t).staging
      qu == Resolve(t).queue
  IN
  /\ Authorized
  /\ st \in Titles /\ qu \in Titles
  /\ book[st] # <<>>
  /\ Len(book[qu]) + Len(book[st]) <= MaxQueue
  /\ book' = [n \in Titles |->
                IF n = st THEN StagingCleared(book[st])
                ELSE IF n = qu THEN QueueAppend(book[qu], book[st])
                ELSE book[n]]
  /\ ret' = NoAnswer
  /\ UNCHANGED << tenant, stage, authVars, mailVars, saveVars, subs, faults, revoked, req, sheetVars, drive,
                  nextFile, staged, tasks, pc, localVars >>
  /\ Observe

\* clear_staging_data / clear_staging_data_sub_account for a tenant of the
\* shared workbook.
BookCancel(t) ==
  LET st == Resolve(t).staging IN
  /\ Authorized
  /\ st \in Titles
  /\ drive' = drive \ ImagesOf(book[st])
  /\ book' = [book EXCEPT ![st] = StagingCleared(book[st])]
  /\ ret' = NoAnswer
  /\ UNCHANGED << tenant, stage, authVars, mailVars, saveVars, subs, faults, revoked, req, sheetVars, nextFile,
                  staged, tasks, pc, localVars >>
  /\ Observe

\* One turn of the loop of process_bulk_queue_sync /
\* process_bulk_queue_sync_sub_account for a tenant of the shared workbook:
\* the head row of its queue sheet; when the download fails, the deletion of
\* the head row; otherwise the append of the contact row to its contact
\* sheet, the deletion of the image and the deletion of the head row.
BookDrain(t) ==
  LET qu == Resolve(t).queue
      co == Resolve(t).contact
  IN
  /\ Authorized
  /\ qu \in Titles /\ co \in Titles
  /\ book[qu] # <<>>
  /\ LET f == HeadFile(book[qu]) IN
       \/ /\ f \notin drive
          /\ book' = [book EXCEPT ![qu] = TopRowDeleted(book[qu])]
          /\ UNCHANGED drive
       \/ /\ f \in drive
          /\ Len(book[co]) < MaxContacts
          /\ LET b == [book EXCEPT ![co] = Append(book[co], ContactRow(f))]
             IN  book' = [b EXCEPT ![qu] = TopRowDeleted(b[qu])]
          /\ drive' = drive \ {f}
  /\ ret' = NoAnswer
  /\ UNCHANGED << tenant, stage, authVars, mailVars, saveVars, subs, faults, revoked, req, sheetVars, nextFile,
                  staged, tasks, pc, localVars >>
  /\ Observe

\* The admin and the sub-accounts at work in one workbook.
BookStageAny == \E t \in Tenants : BookStage(t)
BookCountAny == \E t \in Tenants : BookCount(t)
BookSubmitAny == \E t \in Tenants : BookSubmit(t)
BookCancelAny == \E t \in Tenants : BookCancel(t)
BookDrainAny == \E t \in Tenants : BookDrain(t)

BookNext ==
  \/ CreateSubAccount
  \/ BookStageAny
  \/ BookCountAny
  \/ BookSubmitAny
  \/ BookCancelAny
  \/ BookDrainAny

\* The shared workbook of an enterprise admin where no call fails.
BookInit == ConcInit /\ tenant = "primary" /\ headers = HEADERS_V2

BookSpec == BookInit /\ [][BookNext]_vars

\* ------------------------------------------ the sub-accounts of one admin

\* update_sub_account with a new email: the email must differ from the
\* stored one and be used by no other account; the email is replaced and
\* the session dropped, the stored sheet name is left as it is.
UpdateSubAccount(s, e) ==
  /\ subs[s] # NoSub
  /\ e # subs[s].email
  /\ \A x \in SubIds : subs[x].email # e
  /\ subs' = [subs EXCEPT ![s].email = e]
  /\ current_session_id' = [current_session_id EXCEPT ![s] = 0]
  /\ ret' = NoAnswer
  /\ UNCHANGED << tenant, stage, is_active, tokens, mailVars, saveVars, book,
                  faults, revoked, req, sheetVars, drive, nextFile, staged,
                  tasks, pc, localVars >>
  /\ Observe

\* delete_sub_account: the record is deleted; its sheets stay in the
\* workbook.
DeleteSubAccount(s) ==
  /\ subs[s] # NoSub
  /\ subs' = [subs EXCEPT ![s] = NoSub]
  /\ ret' = NoAnswer
  /\ UNCHANGED << tenant, stage, authVars, mailVars, saveVars, book, faults,
                  revoked, req, sheetVars, drive, nextFile, staged, tasks,
                  pc, localVars >>
  /\ Observe

AccountNext ==
  \/ CreateSubAccount
  \/ \E s \in SubIds, e \in Emails : UpdateSubAccount(s, e)
  \/ \E s \in SubIds : DeleteSubAccount(s)

\* An admin who creates, renames and deletes sub-accounts; no call fails.
AccountSpec == BookInit /\ [][AccountNext]_vars

\* ------------------------------------ stage requests served call by call

\* stage_bulk_image (stage_bulk_image_sub_account), its first call:
\* files.create uploads the image into the bulk folder and returns its ID.
StageUpload(c) ==
  /\ stage[c].pc \in {"idle", "done", "failed"}
  /\ nextFile <= MaxFiles
  /\ drive' = drive \cup {nextFile}
  /\ nextFile' = nextFile + 1
  /\ stage' = [stage EXCEPT ![c] =
                 [pc |-> "ensure", file |-> nextFile, missing |-> FALSE]]
  /\ ret' = NoAnswer
  /\ UNCHANGED << tenant, authVars, mailVars, saveVars, adminVars, faults,
                  revoked, req, sheetVars, staged, tasks, pc, localVars >>
  /\ Observe

\* ensure_bulk_sheets (ensure_sub_account_bulk_sheets), its first call:
\* spreadsheets.get reads the titles; with no title missing nothing is
\* created and the request goes on to its append.
StageEnsureRead(c) ==
  /\ stage[c].pc = "ensure"
  /\ stage' = [stage EXCEPT ![c].missing = ~sheetsExist,
                            ![c].pc = IF sheetsExist THEN "append"
                                                      ELSE "create"]
  /\ ret' = NoAnswer
  /\ UNCHANGED << tenant, authVars, mailVars, saveVars, adminVars, faults,
                  revoked, req, sheetVars, drive, nextFile, staged, tasks,
                  pc, localVars >>
  /\ Observe

\* Its second call: one batchUpdate with an addSheet for each title found
\* missing.  The service refuses the whole batch when a sheet of that title
\* exists by now; the HttpError raises and the stage request fails with its
\* image uploaded and no row written.
StageEnsureCreate(c) ==
  /\ stage[c].pc = "create"
  /\ \/ /\ ~sheetsExist
        /\ sheetsExist' = TRUE
        /\ stage' = [stage EXCEPT ![c].pc = "append"]
     \/ /\ sheetsExist
        /\ stage' = [stage EXCEPT ![c].pc = "failed"]
        /\ UNCHANGED sheetsExist
  /\ ret' = NoAnswer
  /\ UNCHANGED << tenant, authVars, mailVars, saveVars, adminVars, faults,
                  revoked, req, staging, queue, headers, contacts, drive,
                  nextFile, staged, tasks, pc, localVars >>
  /\ Observe

\* The last call of the stage request: values.append of
\* [file_id, "Pending Upload"] to the staging sheet; the file ID is
\* returned.
StageAppend(c) ==
  /\ stage[c].pc = "append"
  /\ staging' = StagingAppend(staging, stage[c].file)
  /\ staged' = Append(staged, stage[c].file)
  /\ stage' = [stage EXCEPT ![c].pc = "done"]
  /\ ret' = NoAnswer
  /\ UNCHANGED << tenant, authVars, mailVars, saveVars, adminVars, faults,
                  revoked, req, sheetsExist, queue, headers, contacts, drive,
                  nextFile, tasks, pc, localVars >>
  /\ Observe

StageNext ==
  \/ \E c \in Callers : StageUpload(c)
  \/ \E c \in Callers : StageEnsureRead(c)
  \/ \E c \in Callers : StageEnsureCreate(c)
  \/ \E c \in Callers : StageAppend(c)

\* Stage requests of one tenant served at the same time; no call fails on
\* its own.
StageSpec == ConcInit /\ [][StageNext]_vars

\* ------------------------------------------------- the single contact save

\* Bodies of the save request (ContactSave): every field is there, the
\* multi-valued ones as lists, the others as strings.  The lists are
\* untyped, so a list of numbers passes the validation.
ContactBodies ==
  LET blank == [k \in Keys |->
                  IF k \in {"org", "title", "notes"} THEN Str("")
                  ELSE List(<<>>)]
      jane == [blank EXCEPT !["fn"] = List(<<"Jane Doe">>),
                            !["tel"] = List(<<"+15550100">>)]
  IN  {blank, jane, [jane EXCEPT !["tel"] = NumList]}

\* row_data of save_contact_to_google: the joined and the scalar fields as
\* they are, with the import source "General".
SaveRowData(c) ==
  << Join(c["fn"]),
     c["org"].v[1],
     Join(c["tel"]),
     c["title"].v[1],
     Join(c["email"]),
     Join(c["url"]),
     Join(c["adr"]),
     "General",
     cat_str(c),
     c["notes"].v[1] >>

\* save_contact_to_google up to the append: the row is built, and a field
\* that cannot be joined raises before any call is made.
SaveContact(c) ==
  /\ save.pc \in {"idle", "saved", "failed"}
  /\ save' = IF RowRaises(c) THEN [NoSave EXCEPT !.pc = "failed"]
             ELSE [pc |-> "append", row |-> SaveRowData(c), made |-> 0]
  /\ ret' = NoAnswer
  /\ UNCHANGED << tenant, stage, authVars, mailVars, gone, adminVars, faults, revoked, req, sheetVars,
                  drive, nextFile, staged, tasks, pc, localVars >>
  /\ Observe

\* One call of append_to_sheet by the save request, with nothing else at
\* work on the sheet: ensure_creds, ensure_schema_v2 (failure swallowed) and
\* values.append.  On 404 a workbook with the new header row is created and
\* its ID stored, and append_to_sheet is called again; when the creation or
\* the commit fails, and on any other error, the call raises.
\* For a sub-account, append_to_sub_account_sheet: no schema check, and
\* every error of the append raises.
AppendToSheet ==
  /\ save.pc = "append"
  /\ LET old == tenant = "primary" /\ ~InSeq("Business Category", headers)
     IN
     \/ /\ faults
        /\ save' = [save EXCEPT !.pc = "failed"]
        /\ UNCHANGED << headers, contacts, gone >>
     \/ /\ ~gone
        /\ \/ /\ old /\ Authorized
              /\ headers' = MigratedHeaders(headers)
              /\ \/ /\ Authorized /\ Len(contacts) < MaxContacts
                    /\ contacts' =
                         ContactAppend(MigratedRows(contacts), 0, save.row)
                    /\ save' = [save EXCEPT !.pc = "saved"]
                 \/ /\ Fails
                    /\ contacts' = MigratedRows(contacts)
                    /\ save' = [save EXCEPT !.pc = "failed"]
           \/ /\ ~old \/ Fails
              /\ UNCHANGED headers
              /\ \/ /\ Authorized /\ Len(contacts) < MaxContacts
                    /\ contacts' = ContactAppend(contacts, 0, save.row)
                    /\ save' = [save EXCEPT !.pc = "saved"]
                 \/ /\ Fails
                    /\ UNCHANGED contacts
                    /\ save' = [save EXCEPT !.pc = "failed"]
        /\ UNCHANGED gone
     \/ /\ gone /\ tenant = "primary"
        /\ \/ /\ Authorized /\ save.made < MaxWorkbooks
              /\ \/ /\ gone' = FALSE
                    /\ headers' = HEADERS_V2
                    /\ contacts' = <<>>
                    /\ save' = [save EXCEPT !.made = @ + 1]
                 \/ /\ Fails
                    /\ save' = [save EXCEPT !.made = @ + 1, !.pc = "failed"]
                    /\ UNCHANGED << headers, contacts, gone >>
           \/ /\ Fails
              /\ save' = [save EXCEPT !.pc = "failed"]
              /\ UNCHANGED << headers, contacts, gone >>
     \/ /\ gone /\ tenant = "sub_account"
        /\ save' = [save EXCEPT !.pc = "failed"]
        /\ UNCHANGED << headers, contacts, gone >>
  /\ ret' = NoAnswer
  /\ UNCHANGED << tenant, stage, authVars, mailVars, adminVars, faults, revoked, req, sheetsExist,
                  staging, queue, drive, nextFile, staged, tasks, pc,
                  localVars >>
  /\ Observe

\* The tenant's workbook is deleted or trashed: from now on every call to
\* the stored ID answers 404.
DeleteWorkbook ==
  /\ ~gone
  /\ gone' = TRUE
  /\ ret' = NoAnswer
  /\ UNCHANGED << tenant, stage, authVars, mailVars, save, adminVars, faults, revoked, req, sheetVars,
                  drive, nextFile, staged, tasks, pc, localVars >>
  /\ Observe

SaveNext ==
  \/ \E c \in ContactBodies : SaveContact(c)
  \/ AppendToSheet
  \/ DeleteWorkbook

\* Save requests of one tenant, one at a time, whose workbook can go
\* missing at any moment.
SaveSpec == SeqInit /\ [][SaveNext]_vars

\* ------------------------------------------------------ the row encoding

\* Extraction results the encoding is applied to: names, numbers and
\* categories missing, null, empty, single or several, the business name
\* missing, null or there.
EncodeInputs ==
  { [EmptyDict EXCEPT !["fn"] = f, !["org"] = o, !["tel"] = t, !["cat"] = c] :
      f \in {Missing, Null, List(<<"Jane Doe">>),
             List(<<"Jane Doe", "J. Doe">>)},
      o \in {Missing, Null, Str("Acme")},
      t \in {Missing, NumList, List(<<"+15550100", "+15550101">>)},
      c \in {Missing, Null, List(<<>>), List(<<"IT", "Law">>)} }

\* The row encoding of the drain loop applied to one extraction result; a
\* field that cannot be joined raises and no row is built.
Encode(cd) ==
  /\ contact_data' = [contact_data EXCEPT !["w1"] = cd]
  /\ row_data' = [row_data EXCEPT !["w1"] =
                    IF RowRaises(cd) THEN <<>> ELSE RowData(cd)]
  /\ ret' = NoAnswer
  /\ UNCHANGED << tenant, stage, authVars, mailVars, saveVars, adminVars, faults, revoked, req,
                  sheetVars, drive, nextFile, staged, tasks, pc, file_id,
                  item >>
  /\ Observe

EncodeNext == \E cd \in EncodeInputs : Encode(cd)

EncodeSpec == SeqInit /\ [][EncodeNext]_vars

\* ------------------------------------------------------ email templates

\* A template row counts as active when its Is Active cell reads TRUE.
HasActive(ts) == \E i \in 1..Len(ts) : ts[i] = "TRUE"

\* A faulty activation that writes the cell of the target row alone.
OnlyTargetWritten(ts, target, make_active) ==
  [i \in 1..Len(ts) |->
     IF i = target THEN (IF make_active THEN "TRUE" ELSE "FALSE") ELSE ts[i]]

\* set_active_template: one values.batchUpdate that writes the Is Active cell
\* of every template row, TRUE for the target when it is activated and
\* FALSE for every other row.
ActiveFlags(ts, target, make_active) ==
  [i \in 1..Len(ts) |->
     IF i = target /\ make_active THEN "TRUE" ELSE "FALSE"]

\* create_template_endpoint / add_template: a row with Is Active FALSE is
\* appended.
AddTemplate ==
  /\ Len(templates) < MaxTemplates
  /\ \/ Authorized /\ templates' = Append(templates, "FALSE")
     \/ Fails /\ UNCHANGED templates
  /\ ret' = NoAnswer
  /\ UNCHANGED << tenant, stage, authVars, email_feature_enabled, saveVars, adminVars, faults,
                  revoked, req, sheetVars, drive, nextFile, staged, tasks,
                  pc, localVars >>
  /\ Observe

\* update_template_endpoint / update_template_content on an existing row:
\* columns B..E are written as subject, body, "" and the attachments, so
\* the Is Active cell of the row is emptied.
UpdateTemplate(row) ==
  /\ row \in 1..Len(templates)
  /\ \/ Authorized /\ templates' = [templates EXCEPT ![row] = ""]
     \/ Fails /\ UNCHANGED templates
  /\ ret' = NoAnswer
  /\ UNCHANGED << tenant, stage, authVars, email_feature_enabled, saveVars, adminVars, faults,
                  revoked, req, sheetVars, drive, nextFile, staged, tasks,
                  pc, localVars >>
  /\ Observe

\* activate_template_endpoint: set_active_template, then the templates are
\* fetched again and the switch is turned off when none is active.  When
\* set_active_template raises nothing is written; when the second fetch
\* raises the switch stays as it is.
ActivateTemplate(row, active) ==
  /\ \/ /\ Authorized
        /\ templates' = ActiveFlags(templates, row, active)
        /\ \/ email_feature_enabled' =
                (email_feature_enabled /\ HasActive(templates'))
           \/ Fails /\ UNCHANGED email_feature_enabled
     \/ Fails /\ UNCHANGED << templates, email_feature_enabled >>
  /\ ret' = NoAnswer
  /\ UNCHANGED << tenant, stage, authVars, saveVars, adminVars, faults, revoked, req,
                  sheetVars, drive, nextFile, staged, tasks, pc, localVars >>
  /\ Observe

\* toggle_email_feature: the switch is turned on only when the fetched
\* templates hold an active one, and turned off without a check.
ToggleEmail(enabled) ==
  /\ \/ /\ enabled /\ Authorized /\ HasActive(templates)
        /\ email_feature_enabled' = TRUE
     \/ /\ enabled /\ (Fails \/ ~HasActive(templates))
        /\ UNCHANGED email_feature_enabled
     \/ ~enabled /\ email_feature_enabled' = FALSE
  /\ ret' = NoAnswer
  /\ UNCHANGED << tenant, stage, authVars, templates, saveVars, adminVars, faults, revoked,
                  req, sheetVars, drive, nextFile, staged, tasks, pc,
                  localVars >>
  /\ Observe

TemplateNext ==
  \/ AddTemplate
  \/ \E row \in 1..MaxTemplates : UpdateTemplate(row)
  \/ \E row \in 1..(MaxTemplates + 1), active \in BOOLEAN :
       ActivateTemplate(row, active)
  \/ \E enabled \in BOOLEAN : ToggleEmail(enabled)

\* The template requests of one tenant, one at a time.
TemplateSpec == SeqInit /\ [][TemplateNext]_vars

\* --------------------------------------------------------------- sessions

\* A faulty validation that looks up the account and never compares the
\* session ID.
AcceptedWhateverSession(t) == t.sub \in SubIds => is_active[t.sub]

\* get_current_user_multi: the account of the token is looked up, a
\* deactivated sub-account is refused, and the session ID of the token must
\* be the stored one.
Accepted(t) ==
  /\ t.sub \in SubIds => is_active[t.sub]
  /\ current_session_id[t.sub] = t.sid

\* login, login_verify_otp and google_callback: a session ID that was never
\* issued before (uuid4) is stored and a token with it is handed out.  The
\* OTP verification does not ask whether the sub-account is active.
Login(a) ==
  /\ Len(tokens) < MaxTokens
  /\ LET session_id == Len(tokens) + 1
     IN  /\ current_session_id' = [current_session_id EXCEPT ![a] = session_id]
         /\ tokens' = Append(tokens, [sub |-> a, sid |-> session_id])
  /\ ret' = NoAnswer
  /\ UNCHANGED << tenant, stage, is_active, mailVars, saveVars, adminVars, faults,
                  revoked, req, sheetVars, drive, nextFile, staged, tasks,
                  pc, localVars >>
  /\ Observe

\* logout and change_password: asked with a token that is accepted, they
\* set the stored session ID to None.
Logout(i) ==
  /\ i \in 1..Len(tokens)
  /\ Accepted(tokens[i])
  /\ current_session_id' = [current_session_id EXCEPT ![tokens[i].sub] = 0]
  /\ ret' = NoAnswer
  /\ UNCHANGED << tenant, stage, is_active, tokens, mailVars, saveVars, adminVars,
                  faults, revoked, req, sheetVars, drive, nextFile, staged,
                  tasks, pc, localVars >>
  /\ Observe

\* toggle_sub_account, asked with an accepted token of the admin: the flag
\* is stored, and a deactivation sets the stored session ID to None.
ToggleSubAccount(s, active) ==
  /\ \E i \in 1..Len(tokens) : tokens[i].sub = Admin /\ Accepted(tokens[i])
  /\ is_active' = [is_active EXCEPT ![s] = active]
  /\ current_session_id' =
       IF active THEN current_session_id
       ELSE [current_session_id EXCEPT ![s] = 0]
  /\ ret' = NoAnswer
  /\ UNCHANGED << tenant, stage, tokens, mailVars, saveVars, adminVars, faults,
                  revoked, req, sheetVars, drive, nextFile, staged, tasks,
                  pc, localVars >>
  /\ Observe

SessionNext ==
  \/ \E a \in {Admin} \cup SubIds : Login(a)
  \/ \E i \in 1..MaxTokens : Logout(i)
  \/ \E s \in SubIds, active \in BOOLEAN : ToggleSubAccount(s, active)

\* The accounts of one admin and the requests that touch their sessions.
SessionSpec == SeqInit /\ [][SessionNext]_vars

\* ------------------------------------------------------------- properties

\* a is an initial part of b.
IsPrefix(a, b) == Len(a) <= Len(b) /\ SubSeq(b, 1, Len(a)) = a

\* The item in the worker's hand has a contact row.
HasContactRow(d) == \E i \in 1..Len(contacts) : contacts[i].src = file_id[d]

\* C1: with a single drainer, a row leaves the queue only as the head row,
\* taken off by the drainer that holds this very item, and only after the
\* item's contact row was appended or its download failed.
C1_DeletedOnlyAfterAppendOrFailedDownload ==
  [][ ~IsPrefix(queue, queue') =>
        /\ queue # <<>>
        /\ queue' = Tail(queue)
        /\ pc["w1"] \in {"delete", "skip_delete"}
        /\ file_id["w1"] = queue[1][1]
        /\ \/ item["w1"].appended /\ HasContactRow("w1")
           \/ item["w1"].dl = "fail" ]_vars

\* A row was appended for file 1, and its queue row was then deleted.
C1_Witness ==
  /\ pc["w1"] = "read"
  /\ queue = <<>>
  /\ nextFile = 2
  /\ \E i \in 1..Len(contacts) : contacts[i].src = 1

\* C2: with a single drainer and submits appending at the tail meanwhile,
\* the drain reads the file of row 1, each contact row it appends is for the
\* row then at position 1, and each row it deletes is row 1: no item is
\* processed before one that was ahead of it.
C2_ProcessedInQueueOrder ==
  [][ /\ (pc["w1"] = "read" /\ pc'["w1"] = "download") =>
           file_id'["w1"] = queue[1][1]
      /\ Len(contacts') > Len(contacts) =>
           /\ queue # <<>>
           /\ contacts' =
                Append(contacts, [src |-> queue[1][1],
                                  cells |-> row_data["w1"]])
      /\ ~IsPrefix(queue, queue') => queue' = Tail(queue) ]_vars

\* Files 1 and 2 were queued in this order and their contact rows follow in
\* this order, while a drain run handed off later is still waiting.
C2_Witness ==
  /\ Len(contacts) >= 2
  /\ contacts[Len(contacts) - 1].src = 1
  /\ contacts[Len(contacts)].src = 2
  /\ pc["w1"] = "delete"
  /\ tasks = 1

\* The rows of the stage calls that succeeded since the staging sheet was
\* last empty.
StagedRows == [i \in 1..Len(staged) |-> Row(staged[i])]

\* C3: with nothing concurrent, a successful submit after n >= 1 successful
\* stage calls on an empty staging sheet leaves the queue as its previous
\* content followed by the n staged rows in stage order, the staging sheet
\* empty, and answers n.
C3_SubmitMovesStagedRows ==
  [][ (ret'.kind = "count" /\ staged # <<>>) =>
        /\ staging = StagedRows
        /\ queue' = queue \o StagedRows
        /\ staging' = <<>>
        /\ ret'.n = Len(staged)
        /\ ret'.n >= 1 ]_vars

\* Two stage calls and one submit: the answer is 2 and the queue holds the
\* two rows in stage order.
C3_Witness ==
  /\ ret = Count(2)
  /\ queue = << Row(1), Row(2) >>
  /\ staging = <<>>

\* The files of the contact rows appended since the run of d started.
NewSrcs(d) ==
  [i \in 1..(Len(contacts) - run[d].c0) |-> contacts[run[d].c0 + i].src]

RECURSIVE KeptFrom(_, _, _)
\* fs without the positions in S, from position i on.
KeptFrom(fs, S, i) ==
  IF i > Len(fs) THEN <<>>
  ELSE (IF i \in S THEN <<>> ELSE << fs[i] >>) \o KeptFrom(fs, S, i + 1)

\* A run of d is over that read the queue empty, with no failed deletion.
RanToEnd(d) == run[d].on /\ ~run[d].lost /\ pc[d] = "drained"

\* C4: a single run over a queue of N items in which every download, append
\* and row deletion succeeds, with nothing concurrent, ends with exactly N
\* new contact rows in the original queue order and with the queue empty.
C4_DrainAppendsAllInOrder ==
  (RanToEnd("w1") /\ run["w1"].dlFail = {}) =>
    /\ queue = <<>>
    /\ run["w1"].n = Len(run["w1"].q0)
    /\ Len(contacts) = run["w1"].c0 + Len(run["w1"].q0)
    /\ NewSrcs("w1") = run["w1"].q0

\* A run over two items has ended with no failure.
C4_Witness ==
  /\ RanToEnd("w1")
  /\ run["w1"].dlFail = {}
  /\ run["w1"].q0 = <<1, 2>>
  /\ Len(contacts) = 2

\* C5: a single run over N items in which some downloads fail and every
\* other step succeeds appends no row for the items whose download failed
\* and one row for each other item, in queue order, leaves the queue empty
\* and ends as a run does that met no failure; the failed download itself
\* only sends the worker on to the deletion of the head row.
C5_FailedDownloadSkipsItem ==
  /\ (RanToEnd("w1") /\ run["w1"].dlFail # {}) =>
       /\ queue = <<>>
       /\ run["w1"].n = Len(run["w1"].q0)
       /\ run["w1"].dlFail \subseteq 1..Len(run["w1"].q0)
       /\ Len(contacts) =
            run["w1"].c0 + Len(run["w1"].q0) - Cardinality(run["w1"].dlFail)
       /\ NewSrcs("w1") = KeptFrom(run["w1"].q0, run["w1"].dlFail, 1)
  /\ item["w1"].dl = "fail" =>
       /\ pc["w1"] = "skip_delete"
       /\ ~item["w1"].appended

\* A run over two items has ended: the download of the first failed, the
\* second has its row.
C5_Witness ==
  /\ RanToEnd("w1")
  /\ run["w1"].q0 = <<1, 2>>
  /\ run["w1"].dlFail = {1}
  /\ NewSrcs("w1") = <<2>>

\* The cell of an empty extracted field.
EmptyCell == force_text(Str(""))
\* The columns of a contact row that hold extracted fields (column 8 holds
\* the import source).
ExtractedColumns == (1..10) \ {8}

\* C6: when the extraction raises for an item, the loop goes on to the
\* append with a row whose extracted fields are all empty; the row appended
\* for the item is that row; and the deletion that follows takes the item
\* off the head and sends the run back to the read.
C6_ExtractionErrorGivesBlankRow ==
  [][ /\ (pc["w1"] = "extract" /\ item'["w1"].ex = "raised") =>
           /\ pc'["w1"] = "schema"
           /\ \A i \in ExtractedColumns : row_data'["w1"][i] = EmptyCell
      /\ (item["w1"].ex = "raised" /\ Len(contacts') > Len(contacts)) =>
           /\ contacts'[Len(contacts')].src = file_id["w1"]
           /\ \A i \in ExtractedColumns :
                contacts'[Len(contacts')].cells[i] = EmptyCell
      /\ (item["w1"].ex = "raised" /\ pc["w1"] = "delete"
            /\ Len(queue') < Len(queue)) =>
           /\ item["w1"].appended
           /\ queue[1][1] = file_id["w1"]
           /\ queue' = Tail(queue)
           /\ pc'["w1"] = "read" ]_vars

\* The extraction raised for the item in hand, and its blank row is the
\* last row of the contact sheet.
C6_Witness ==
  /\ pc["w1"] = "delete"
  /\ item["w1"].ex = "raised"
  /\ item["w1"].appended
  /\ contacts[Len(contacts)] = [src |-> file_id["w1"], cells |-> BlankRow]

\* C7: one bad item cannot stall the queue: no run is over with an item at
\* the head of the queue whose extraction gave malformed output.
C7_BadItemLeavesQueue ==
  \A d \in Drainers :
    (pc[d] \in Terminal /\ item[d].ex = "malformed") =>
      (queue = <<>> \/ queue[1][1] # file_id[d])

\* C8: every drain run ends, with nothing submitted meanwhile, whatever
\* fails.
C8_DrainTerminates == Running("w1") ~> ~Running("w1")

\* The step in which the deletion of the head row fails after the item's
\* contact row was appended.
DeleteFailsAfterAppend ==
  /\ pc["w1"] = "delete"
  /\ pc'["w1"] # "delete"
  /\ item["w1"].appended
  /\ queue' = queue

\* C9, as amended: when the deletion of the head row fails after the item's
\* contact row was appended, the failure is passed over, the contact row
\* stays, the item stays at the head of the queue, and the same run goes
\* back to the read, where it takes up the head row, this item, again.
C9_FailedDeleteIsRetriedInRun ==
  [][ /\ DeleteFailsAfterAppend =>
           /\ pc'["w1"] = "read"
           /\ queue' # <<>>
           /\ queue'[1][1] = file_id["w1"]
           /\ contacts' = contacts
      /\ (pc["w1"] = "read" /\ pc'["w1"] = "download") =>
           file_id'["w1"] = queue[1][1] ]_vars

\* C9 as stated: after the failed deletion the item is left for the next
\* drain run, so this run is over.
C9_FailedDeleteLeftToNextRun ==
  [][ DeleteFailsAfterAppend => pc'["w1"] \in Terminal ]_vars

\* A deletion failed in this run, and the run holds an item again that
\* already has its contact row.
C9_Witness ==
  /\ run["w1"].on
  /\ run["w1"].lost
  /\ pc["w1"] = "extract"
  /\ file_id["w1"] = 1
  /\ nextFile = 2
  /\ staging = <<>>
  /\ HasContactRow("w1")

\* The step of the worker at the append that appends nothing.
AppendFails ==
  /\ pc["w1"] = "append"
  /\ pc'["w1"] # "append"
  /\ contacts' = contacts

C11_OneDrainAtATime == Cardinality({d \in Drainers : Running(d)}) <= 1

\* The worker holds an item: it has read a head row and has not yet gone
\* back to the read.
Holding(d) ==
  pc[d] \in {"download", "extract", "schema", "migrate", "append", "email",
             "cleanup", "delete", "skip_delete"}

\* C12: two drain runs on one queue do not keep out of each other's way:
\* each reads the head row whoever else holds that item, each appends a
\* contact row for the item it holds, and each deletion takes off the row
\* then at the head, also when that is not the item the drainer holds.
C12_DrainsShareTheHead ==
  [][ \A d \in Drainers :
        /\ (pc[d] = "read" /\ pc'[d] = "download") =>
             file_id'[d] = queue[1][1]
        /\ (pc[d] = "append" /\ pc'[d] = "email") =>
             contacts' = Append(contacts, [src |-> file_id[d],
                                           cells |-> row_data[d]])
        /\ (pc[d] = "delete" /\ pc'[d] = "read"
              /\ Len(queue') < Len(queue)) =>
             queue' = Tail(queue) ]_vars

\* No call failed, files 1 and 2 were staged and queued in this order, both
\* drainers appended a row for file 1, and their two deletions emptied the
\* queue: file 2 has no contact row and its image is still in storage.
C12_Witness ==
  /\ ~faults
  /\ nextFile = 3
  /\ staging = <<>>
  /\ queue = <<>>
  /\ \A d \in Drainers : ~Holding(d)
  /\ Len(contacts) = 2
  /\ contacts[1].src = 1
  /\ contacts[2].src = 1
  /\ 2 \in drive

\* A file has a row in a sheet.
Listed(f, rows) == InSeq(Row(f), rows)

\* A file has a contact row, or a worker has it in hand.
Drained(f) ==
  \/ \E i \in 1..Len(contacts) : contacts[i].src = f
  \/ \E d \in Drainers : Holding(d) /\ file_id[d] = f

\* C13: a submit is not atomic against a concurrent stage: a row that a
\* stage request appends to the staging sheet between the submit's read and
\* its clear is wiped by the clear without having been moved, so it ends in
\* neither the staging sheet nor the queue, and its image stays in storage;
\* the submit answers the count of the rows it read.
C13_LateStagedRowIsDropped ==
  [][ (req.op = "submit_appended" /\ req'.op = "none"
         /\ ret'.kind = "count") =>
        /\ ret'.n = Len(req.rows)
        /\ \A i \in 1..Len(staging) :
             ~InSeq(staging[i], req.rows) =>
               /\ ~InSeq(staging[i], staging')
               /\ ~InSeq(staging[i], queue')
               /\ staging[i][1] \in drive' ]_vars

\* No call failed; the submit that has just answered 1 had read the row of
\* file 1, file 2 was staged before its clear: file 2 is in storage, in no
\* sheet, and no drain has seen it.
C13_Witness ==
  /\ ~faults
  /\ req = NoReq
  /\ ret = Count(1)
  /\ nextFile = 3
  /\ Listed(1, queue)
  /\ 2 \in drive
  /\ ~Listed(2, staging)
  /\ ~Listed(2, queue)
  /\ ~Drained(2)

\* C14: the row of an uploaded image moves forward only: it is never in the
\* staging sheet and in the queue at once, a row that has reached the queue
\* is not in the staging sheet afterwards, and a row that has left both
\* sheets is in neither of them again.
C14_RowMovesForwardOnly ==
  [][ \A f \in Files :
        /\ ~(Listed(f, staging') /\ Listed(f, queue'))
        /\ Listed(f, queue) => ~Listed(f, staging')
        /\ (f < nextFile /\ ~Listed(f, staging) /\ ~Listed(f, queue)) =>
             (~Listed(f, staging') /\ ~Listed(f, queue')) ]_vars

\* C15: a submit request served while the staging sheet has no rows changes
\* no sheet and no image and hands off no drain, and the count it answers,
\* when it answers, is 0.
C15_EmptySubmitDoesNothing ==
  [][ (ret'.kind # "none" /\ staging = <<>>) =>
        /\ UNCHANGED << sheetVars, drive, tasks >>
        /\ ret'.kind = "count" => ret'.n = 0 ]_vars

\* A submit has just answered 0 while a row is queued and a drain handed
\* off earlier has not started yet.
C15_Witness ==
  /\ ret = Count(0)
  /\ staging = <<>>
  /\ queue = << Row(1) >>
  /\ tasks = 1

\* C16: a cancel touches only what has not been submitted: no step of a
\* cancel request removes a queue row, and none deletes the image of an item
\* whose row is in the queue.
C16_CancelSparesQueuedItems ==
  [][ (req.op \in {"cancel_read", "cancel_deleted"} /\ req' # req) =>
        /\ queue' = queue
        /\ \A f \in drive \ drive' : ~Listed(f, queue) ]_vars

\* C17: a cancel leaves the staging sheet empty whenever its read and its
\* clear of the sheet succeed: whichever deletions of images fail, the
\* request goes on to the clear, and a cancel that answers has emptied the
\* sheet.
C17_CancelEmptiesStaging ==
  [][ /\ (req.op = "cancel_read" /\ req' # req) =>
           (req'.op = "cancel_deleted" /\ staging' = staging)
      /\ ret' = Cleared => staging' = <<>> ]_vars

\* A cancel has just answered: the staging sheet is empty, nothing was ever
\* queued, and the images of both files uploaded so far are still in
\* storage.
C17_Witness ==
  /\ ret = Cleared
  /\ sheetsExist
  /\ staging = <<>>
  /\ queue = <<>>
  /\ nextFile = 3
  /\ drive = {1, 2}

\* C18: an exception of the email step is swallowed: the contact row of the
\* item was appended before the step and stays, the step that follows is the
\* deletion of the image and then the deletion of the head row of the queue,
\* and the run goes back to the read.
C18_EmailFailureIsSwallowed ==
  [][ /\ (pc["w1"] = "email" /\ item'["w1"].mailFailed) =>
           /\ pc'["w1"] = "cleanup"
           /\ item["w1"].appended
           /\ HasContactRow("w1")
           /\ contacts' = contacts
           /\ queue' = queue
      /\ (item["w1"].mailFailed /\ pc["w1"] = "cleanup"
            /\ pc'["w1"] # "cleanup") => pc'["w1"] = "delete"
      /\ (item["w1"].mailFailed /\ pc["w1"] = "delete"
            /\ pc'["w1"] # "delete") =>
           /\ pc'["w1"] = "read"
           /\ contacts' = contacts
           /\ queue' = TopRowDeleted(queue) \/ queue' = queue ]_vars

\* The email step of file 1 raised after its contact row was appended; the
\* run went on, has deleted the image, and stands at the deletion of the
\* head row of the queue.
C18_Witness ==
  /\ pc["w1"] = "delete"
  /\ item["w1"].mailFailed
  /\ item["w1"].appended
  /\ file_id["w1"] = 1
  /\ HasContactRow("w1")
  /\ queue = << Row(1), Row(2) >>
  /\ 1 \notin drive

C20_MovingSubmitHandsOffOneDrain ==
  [][ Len(queue') > Len(queue) =>
        /\ tasks' = tasks + 1
        /\ ret' = Count(Len(queue') - Len(queue)) ]_vars

\* C21: the sheet names of two distinct tenants of one workbook never
\* collide: no contact, staging or queue sheet name of one tenant is a
\* contact, staging or queue sheet name of another.
C21_NamesNeverCollide ==
  \A t \in Tenants, u \in Tenants :
    t # u => NamesOf(t) \cap NamesOf(u) = {}

\* The sheets of a tenant are left as they were by the step.
SheetsUntouched(u) ==
  \A n \in NamesOf(u) :
    n \in Titles => (n \in DOMAIN book' /\ book'[n] = book[n])

\* C22: a stage, count, submit, cancel or drain done for one tenant of the
\* workbook never adds, changes or deletes rows in a sheet of another
\* tenant: every step leaves the sheets of all tenants but one untouched.
C22_OnlyOwnSheetsChange ==
  [][ \E t \in Tenants : \A u \in Tenants \ {t} : SheetsUntouched(u) ]_vars

\* C23: every append of a contact row comes after a schema check of the
\* contact sheet the row goes to, made on the way to this very append.
C23_AppendFollowsSchemaCheck ==
  [][ \A d \in Drainers :
        (pc[d] = "append" /\ Len(contacts') > Len(contacts)) =>
          item[d].checked ]_vars

\* C25: over any execution the category column is inserted into a contact
\* sheet at most once, also when two appends run their schema checks on
\* the same unmigrated sheet concurrently: the header row never holds the
\* category header twice and never has more columns than the new layout.
C25_ColumnInsertedAtMostOnce ==
  /\ Cardinality({i \in 1..Len(headers) :
                    headers[i] = "Business Category"}) <= 1
  /\ Len(headers) <= Len(HEADERS_V2)

\* C27: a failure of the schema check or of the migration is swallowed and
\* the append is still attempted: the check always hands on to the append
\* (by way of the migration when the header is missing), and once the check
\* was begun for an item the run is given up only at the append itself.
C27_MigrationFailureIsSwallowed ==
  [][ /\ (pc["w1"] = "schema" /\ item'["w1"].checked) =>
           pc'["w1"] \in {"migrate", "append"}
      /\ (pc["w1"] = "migrate" /\ pc'["w1"] # "migrate") =>
           pc'["w1"] = "append"
      /\ (item["w1"].checked /\ pc["w1"] # OnError /\ pc'["w1"] = OnError) =>
           pc["w1"] = "append" ]_vars

\* The migration of the old layout failed, and the row of the item was
\* appended all the same, under the header row of the old layout.
C27_Witness ==
  /\ tenant = "primary"
  /\ headers = HEADERS_V1
  /\ item["w1"].checked
  /\ item["w1"].appended
  /\ contacts[Len(contacts)].src = file_id["w1"]
  /\ Len(contacts[Len(contacts)].cells) = Len(HEADERS_V2)

\* C24: with one caller at a time the migrator inserts exactly one category
\* column: a run that changes the header row found it without the category
\* header and leaves it with one more column, the category header in
\* column I; on a sheet that has the header (the new layout, or the old
\* one after its first run) the check stops at the read, and the header
\* row and the rows of the sheet stay as they are.
C24_MigratorIsIdempotent ==
  [][ /\ headers' # headers =>
           /\ ~InSeq("Business Category", headers)
           /\ headers' = SubSeq(headers, 1, 8) \o <<"Business Category">>
                           \o SubSeq(headers, 9, Len(headers))
      /\ InSeq("Business Category", headers) =>
           /\ pc'["w1"] # "migrate"
           /\ headers' = headers
           /\ SubSeq(contacts', 1, Len(contacts)) = contacts ]_vars

\* A sheet of the old layout was migrated by the check of the first item
\* and a row was appended; the check of the second item has run on the
\* migrated sheet and has handed on to the append.
C24_Witness ==
  /\ headers = HEADERS_V2
  /\ Len(contacts) = 2
  /\ contacts[1].cells = InsertColumnI(LegacyCells)
  /\ contacts[2].src = 1
  /\ file_id["w1"] = 2
  /\ pc["w1"] = "append"
  /\ item["w1"].checked

\* C26: the migration of a sheet of the old layout keeps its data: the sheet
\* has the same rows, each with its first eight cells as before, an empty
\* ninth cell and its former ninth cell (the note) in the tenth column, and
\* the header row has its first eight cells as before, the category header
\* in the ninth and the former ninth header in the tenth.
C26_MigrationKeepsData ==
  [][ headers' # headers =>
        /\ Len(headers') = Len(headers) + 1
        /\ SubSeq(headers', 1, 8) = SubSeq(headers, 1, 8)
        /\ headers'[9] = "Business Category"
        /\ headers'[10] = headers[9]
        /\ Len(contacts') = Len(contacts)
        /\ \A i \in 1..Len(contacts) :
             /\ contacts'[i].src = contacts[i].src
             /\ SubSeq(contacts'[i].cells, 1, 8) =
                  SubSeq(contacts[i].cells, 1, 8)
             /\ Len(contacts[i].cells) >= 9 =>
                  /\ Len(contacts'[i].cells) = Len(contacts[i].cells) + 1
                  /\ contacts'[i].cells[9] = ""
                  /\ contacts'[i].cells[10] = contacts[i].cells[9] ]_vars

\* The migration has just run on the sheet of the old layout: the legacy row
\* has its note in the tenth column, and no row has been appended since.
C26_Witness ==
  /\ tenant = "primary"
  /\ headers = HEADERS_V2
  /\ Len(contacts) = 1
  /\ contacts[1].src = 0
  /\ contacts[1].cells[10] = LegacyCells[9]
  /\ contacts[1].cells[9] = ""
  /\ pc["w1"] = "append"
  /\ ~item["w1"].appended

\* C28: one append call that finds the workbook missing creates one new
\* workbook, stores its ID and retries once; whatever the retry meets, the
\* call creates no further workbook.
C28_AppendRecreatesAtMostOnce == save.made <= 1

\* C30: every cell of every contact row that is written, by the drain of
\* either kind of tenant and by the single contact save, is text-forced: it
\* is empty or a text behind a quote.
C30_WrittenCellsAreTextForced ==
  [][ Len(contacts') > Len(contacts) =>
        LET texts == {"", "Jane Doe", "jane@x.com", "+15550100", "General",
                      BULK_SOURCE}
            forced(cell) == cell = "" \/ \E t \in texts : cell = "'" \o t
        IN  \A i \in 1..Len(HEADERS_V2) :
              forced(contacts'[Len(contacts')].cells[i]) ]_vars

\* C29: the staging and the queue sheet of a tenant are ensured with create
\* operations for the missing sheets only, sent in one batched call: a step
\* that sets up the sheets of a sub-account makes, besides the call for its
\* contact sheet, at most one call that adds sheets.
C29_BulkSheetsAddedInOneCall ==
  [][ \A s \in SubIds :
        (subs[s] = NoSub /\ subs'[s] # NoSub) =>
          LET name == SubSheetName(subs'[s].email)
          IN  AddSheetCalls(book, name)
                - (IF name \in Titles THEN 0 ELSE 1) <= 1 ]_vars

\* C31: the row the drain encodes has ten cells in the order name,
\* business, numbers, title, emails, websites, address, source, category,
\* notes: a multi-valued field is joined with a comma and a space, a
\* missing field gives an empty text, and the source reads Bulk Import.
C31_RowLayout ==
  LET cd == contact_data["w1"]
      row == row_data["w1"]
      joined(x) ==
        IF x.t # "list" \/ x.v = <<>> THEN ""
        ELSE IF Len(x.v) = 1 THEN x.v[1]
        ELSE x.v[1] \o ", " \o x.v[2]
      scalar(x) ==
        CASE x.t = "missing" -> "'"
          [] x.t = "null" -> ""
          [] OTHER -> "'" \o x.v[1]
  IN  row # <<>> =>
        /\ Len(row) = 10
        /\ row[1] = "'" \o joined(cd["fn"])
        /\ row[2] = scalar(cd["org"])
        /\ row[3] = "'" \o joined(cd["tel"])
        /\ row[4] = scalar(cd["title"])
        /\ row[5] = "'" \o joined(cd["email"])
        /\ row[6] = "'" \o joined(cd["url"])
        /\ row[7] = "'" \o joined(cd["adr"])
        /\ row[8] = "'Bulk Import"
        /\ row[9] = "'" \o joined(cd["cat"])
        /\ row[10] = scalar(cd["notes"])

\* A result with two names, a business name, two numbers and two
\* categories, and no other field, was encoded.
C31_Witness ==
  /\ row_data["w1"] =
       << "'Jane Doe, J. Doe", "'Acme", "'+15550100, +15550101", "'", "'",
          "'", "'", "'Bulk Import", "'IT, Law", "'" >>
  /\ contact_data["w1"]["email"] = Missing

\* C32: after any sequence of add, update and activate or deactivate
\* requests at most one template row is active, and a request that makes a
\* row active leaves every other row with its flag cleared.
C32_AtMostOneActiveTemplate ==
  [][ /\ Cardinality({i \in 1..Len(templates') :
                        templates'[i] = "TRUE"}) <= 1
      /\ \A i \in 1..Len(templates') :
           (templates'[i] = "TRUE" /\ i <= Len(templates)
              /\ templates[i] # "TRUE") =>
             \A j \in 1..Len(templates') :
               j # i => templates'[j] = "FALSE" ]_vars

\* Three templates, the third active, the first two with their flags
\* written FALSE.
C32_Witness == templates = << "FALSE", "FALSE", "TRUE" >>

\* C39: whenever the email-on-save switch is on, exactly one template row
\* is active.
C39_EnabledImpliesActiveTemplate ==
  email_feature_enabled =>
    Cardinality({i \in 1..Len(templates) : templates[i] = "TRUE"}) = 1

\* C33: one session per account: an accepted token carries the session ID
\* stored for its account, at most one token of an account is accepted, a
\* login leaves every earlier token of the account refused, and after a
\* logout, a password change or a deactivation no token of the account is
\* accepted.
C33_OneSessionPerAccount ==
  [][ /\ \A i \in 1..Len(tokens') :
           Accepted(tokens[i])' =>
             /\ tokens'[i].sid = current_session_id'[tokens'[i].sub]
             /\ \A j \in 1..Len(tokens') :
                  (tokens'[j].sub = tokens'[i].sub /\ Accepted(tokens[j])')
                    => j = i
      /\ \A a \in {Admin} \cup SubIds :
           /\ current_session_id'[a] # current_session_id[a] =>
                \A i \in 1..Len(tokens) :
                  tokens[i].sub = a => ~Accepted(tokens[i])'
           /\ (a \in SubIds /\ is_active[a] /\ ~is_active'[a]) =>
                \A i \in 1..Len(tokens) :
                  tokens[i].sub = a => ~Accepted(tokens[i])' ]_vars

\* The admin logged in twice and a sub-account once: the admin's second
\* token and the sub-account's token are accepted, the admin's first is
\* refused.
C33_Witness ==
  /\ Len(tokens) = 3
  /\ tokens[1].sub = Admin
  /\ tokens[2].sub = Admin
  /\ tokens[3].sub = "s1"
  /\ ~Accepted(tokens[1])
  /\ Accepted(tokens[2])
  /\ Accepted(tokens[3])

\* C34: with a single drainer, once the image of an item is deleted no
\* contact row is added for the item, whatever deletion of the head row
\* fails afterwards: the download of the item that is read again fails and
\* the item goes to the deletion of its row, not to a second append.
C34_NoRowAfterImageDeleted ==
  [][ /\ \A f \in Files :
           f \notin drive =>
             Cardinality({i \in 1..Len(contacts') : contacts'[i].src = f})
               = Cardinality({i \in 1..Len(contacts) : contacts[i].src = f})
      /\ (pc["w1"] = "download" /\ file_id["w1"] \notin drive
            /\ pc'["w1"] # "download") =>
           pc'["w1"] = "skip_delete" ]_vars

\* The row of file 1 was appended and its image deleted, the deletion of
\* the head row failed, and the run has read the same head again and failed
\* to download it: file 1 has its one contact row.
C34_Witness ==
  /\ pc["w1"] = "skip_delete"
  /\ file_id["w1"] = 1
  /\ 1 \notin drive
  /\ queue # <<>>
  /\ queue[1][1] = 1
  /\ Cardinality({i \in 1..Len(contacts) : contacts[i].src = 1}) = 1

\* C35: a submit that fails leaves the store unchanged: when a submit
\* request answers with an error the staging sheet and the queue sheet are
\* as they were before the request, and no row is in both sheets
\* afterwards.
C35_FailedSubmitChangesNothing ==
  [][ ret' = Raised =>
        /\ UNCHANGED << staging, queue >>
        /\ \A f \in Files : ~(Listed(f, staging') /\ Listed(f, queue')) ]_vars

\* C36: no queued row is stranded: whenever the queue holds a row, a drain
\* of the queue is running or has been handed to a background task and not
\* started yet.
C36_QueuedRowHasADrain ==
  queue # <<>> => (tasks > 0 \/ \E d \in Drainers : Running(d))

\* C37: after any sequence of sub-account creations, renames and deletions
\* under one admin no two existing sub-accounts have the same stored
\* contact-sheet name.
C37_SheetNamesAreDistinct ==
  \A s, t \in SubIds :
    (s # t /\ subs[s] # NoSub /\ subs[t] # NoSub
       /\ subs[s].sheet_name # <<>>) =>
      subs[s].sheet_name # subs[t].sheet_name

\* C38: stage requests of one tenant served at the same time are
\* independent, also when the staging and the queue sheet do not exist yet:
\* none of them fails, and the staging sheet holds exactly one row for the
\* image of each request that has returned.
C38_ConcurrentStagesSucceed ==
  \A c \in Callers :
    /\ stage[c].pc # "failed"
    /\ stage[c].pc = "done" =>
         Cardinality({i \in 1..Len(staging) :
                        staging[i][1] = stage[c].file}) = 1

====
